---- MODULE Spec2Model ----
(***************************************************************************)
(* Model of src/main.cpp: one pass over a list of (name, score) pairs that *)
(* fills a vector, an ordered set and an ordered map, followed by three    *)
(* print loops.  Strings are sequences of character codes so that the      *)
(* ordering of std::set / std::map is computed, not assumed.  The state of *)
(* an execution is indexed by a run so that two executions of the program  *)
(* on the same input can be compared.                                      *)
(***************************************************************************)
EXTENDS Integers, Sequences, FiniteSets, TLC

VARIABLES incomingData, pc, i, it, participants, uniqueNames, scores, out, ret

vars == <<incomingData, pc, i, it, participants, uniqueNames, scores, out, ret>>

(* ---------------------------- bounds ----------------------------------- *)
MaxLen == 3

Runs == {1, 2}

(* ---------------------------- strings ---------------------------------- *)
Alice   == <<65, 108, 105, 99, 101>>
Bob     == <<66, 111, 98>>
Charlie == <<67, 104, 97, 114, 108, 105, 101>>
Diana   == <<68, 105, 97, 110, 97>>
Al      == <<65, 108>>

Pair(n, s) == [first |-> n, second |-> s]

HardcodedData ==
  << Pair(Alice, 95), Pair(Bob, 80), Pair(Alice, 97),
     Pair(Charlie, 100), Pair(Diana, 75) >>

TestNames  == {Al, Alice, Bob}
TestScores == {95, 97}
TestPairs  == {Pair(n, s) : n \in TestNames, s \in TestScores}

(* the literal list of lines 17-23, and every list of up to MaxLen pairs   *)
(* over a small alphabet with a repeated name, a proper prefix (Al, Alice) *)
(* and two scores, the empty list included                                 *)
Inputs ==
  {HardcodedData} \cup UNION {[1..k -> TestPairs] : k \in 0..MaxLen}

(* std::string operator< : lexicographic on the character codes, a proper  *)
(* prefix is smaller.                                                      *)
RECURSIVE LexLess(_, _)
LexLess(a, b) ==
  IF b = <<>> THEN FALSE
  ELSE IF a = <<>> THEN TRUE
  ELSE IF a[1] < b[1] THEN TRUE
  ELSE IF b[1] < a[1] THEN FALSE
  ELSE LexLess(Tail(a), Tail(b))

(* operator<<(int): decimal digits, '-' in front of a negative value.      *)
RECURSIVE Digits(_)
Digits(v) ==
  IF v < 10 THEN <<48 + v>> ELSE Append(Digits(v \div 10), 48 + (v % 10))

Decimal(v) == IF v < 0 THEN <<45>> \o Digits(0 - v) ELSE Digits(v)

(* ---------------------------- containers ------------------------------- *)
Range(s) == {s[j] : j \in 1..Len(s)}

InsertAt(s, p, x) == SubSeq(s, 1, p - 1) \o <<x>> \o SubSeq(s, p, Len(s))

(* std::vector::push_back *)
PushBack_Front(vec, x) == <<x>> \o vec

PushBack_Dedup(vec, x) == IF x \in Range(vec) THEN vec ELSE Append(vec, x)

PushBack(vec, x) == Append(vec, x)

(* position of the first element not less than n (lower_bound)             *)
LowerBound(s, n) == 1 + Cardinality({j \in 1..Len(s) : LexLess(s[j], n)})

(* std::set<std::string>::insert : the set is kept as its sorted sequence  *)
SetInsert_Multi(s, n) == InsertAt(s, LowerBound(s, n), n)

SetInsert_Unsorted(s, n) == IF n \in Range(s) THEN s ELSE Append(s, n)

SetInsert(s, n) ==
  IF n \in Range(s) THEN s ELSE InsertAt(s, LowerBound(s, n), n)

Keys(m) == [j \in 1..Len(m) |-> m[j].first]

HasKey(m, k) == \E j \in 1..Len(m) : m[j].first = k

(* std::map<std::string,int>: scores[name] = score                         *)
MapAssign_KeepFirst(m, k, v) ==
  IF HasKey(m, k) THEN m ELSE InsertAt(m, LowerBound(Keys(m), k), Pair(k, v))

MapAssign_Only(m, k, v) == <<Pair(k, v)>>

MapAssign(m, k, v) ==
  IF HasKey(m, k)
  THEN [j \in 1..Len(m) |-> IF m[j].first = k THEN Pair(k, v) ELSE m[j]]
  ELSE InsertAt(m, LowerBound(Keys(m), k), Pair(k, v))

(* ---------------------------- output ----------------------------------- *)
Lit(s) == [kind |-> "lit", text |-> s, chars |-> <<>>]
Str(n) == [kind |-> "str", text |-> "", chars |-> n]
Num(v) == [kind |-> "int", text |-> "", chars |-> Decimal(v)]

HdrAll    == Lit("All participants (in order of registration):\n")
HdrUnique == Lit("Unique participants:\n")
HdrScores == Lit("Final scores:\n")
Space     == Lit(" ")
Colon     == Lit(" : ")
BlankLine == Lit("\n\n")
Endl      == Lit("\n")

(* ---------------------------- program ---------------------------------- *)
Init ==
  /\ incomingData \in Inputs
  /\ pc = [r \in Runs |-> "ingest"]
  /\ i = [r \in Runs |-> 0]
  /\ it = [r \in Runs |-> 0]
  /\ participants = [r \in Runs |-> <<>>]
  /\ uniqueNames = [r \in Runs |-> <<>>]
  /\ scores = [r \in Runs |-> <<>>]
  /\ out = [r \in Runs |-> <<>>]
  /\ ret = [r \in Runs |-> <<>>]

(* one iteration of the loop of line 25 *)
IngestStep(r) ==
  /\ pc[r] = "ingest"
  /\ i[r] < Len(incomingData)
  /\ LET entry == incomingData[i[r] + 1]
         name  == entry.first
         score == entry.second
     IN /\ participants' = [participants EXCEPT ![r] = PushBack(@, name)]
        /\ uniqueNames' = [uniqueNames EXCEPT ![r] = SetInsert(@, name)]
        /\ scores' = [scores EXCEPT ![r] = MapAssign(@, name, score)]
  /\ i' = [i EXCEPT ![r] = @ + 1]
  /\ UNCHANGED <<incomingData, pc, it, out, ret>>

(* the loop of line 25 ends; line 42 and participants.begin() *)
IngestDone_Quiet(r) ==
  /\ pc[r] = "ingest"
  /\ i[r] = Len(incomingData)
  /\ out' = [out EXCEPT ![r] = IF participants[r] = <<>> THEN @ ELSE Append(@, HdrAll)]
  /\ it' = [it EXCEPT ![r] = 1]
  /\ pc' = [pc EXCEPT ![r] = "printAll"]
  /\ UNCHANGED <<incomingData, i, participants, uniqueNames, scores, ret>>

IngestDone(r) ==
  /\ pc[r] = "ingest"
  /\ i[r] = Len(incomingData)
  /\ out' = [out EXCEPT ![r] = Append(@, HdrAll)]
  /\ it' = [it EXCEPT ![r] = 1]
  /\ pc' = [pc EXCEPT ![r] = "printAll"]
  /\ UNCHANGED <<incomingData, i, participants, uniqueNames, scores, ret>>

(* lines 43-45, one iteration *)
PrintParticipant(r) ==
  /\ pc[r] = "printAll"
  /\ it[r] <= Len(participants[r])
  /\ out' = [out EXCEPT ![r] = @ \o <<Str(participants[r][it[r]]), Space>>]
  /\ it' = [it EXCEPT ![r] = @ + 1]
  /\ UNCHANGED <<incomingData, pc, i, participants, uniqueNames, scores, ret>>

(* it == participants.end(); lines 46-50 *)
EndPrintAll_Swapped(r) ==
  /\ pc[r] = "printAll"
  /\ it[r] = Len(participants[r]) + 1
  /\ out' = [out EXCEPT ![r] = @ \o <<BlankLine, HdrScores>>]
  /\ it' = [it EXCEPT ![r] = 1]
  /\ pc' = [pc EXCEPT ![r] = "printUnique"]
  /\ UNCHANGED <<incomingData, i, participants, uniqueNames, scores, ret>>

EndPrintAll(r) ==
  /\ pc[r] = "printAll"
  /\ it[r] = Len(participants[r]) + 1
  /\ out' = [out EXCEPT ![r] = @ \o <<BlankLine, HdrUnique>>]
  /\ it' = [it EXCEPT ![r] = 1]
  /\ pc' = [pc EXCEPT ![r] = "printUnique"]
  /\ UNCHANGED <<incomingData, i, participants, uniqueNames, scores, ret>>

(* lines 50-52, one iteration *)
PrintUnique_AnyOrder(r) ==
  /\ pc[r] = "printUnique"
  /\ it[r] <= Len(uniqueNames[r])
  /\ \E j \in 1..Len(uniqueNames[r]) :
        out' = [out EXCEPT ![r] = @ \o <<Str(uniqueNames[r][j]), Space>>]
  /\ it' = [it EXCEPT ![r] = @ + 1]
  /\ UNCHANGED <<incomingData, pc, i, participants, uniqueNames, scores, ret>>

PrintUnique(r) ==
  /\ pc[r] = "printUnique"
  /\ it[r] <= Len(uniqueNames[r])
  /\ out' = [out EXCEPT ![r] = @ \o <<Str(uniqueNames[r][it[r]]), Space>>]
  /\ it' = [it EXCEPT ![r] = @ + 1]
  /\ UNCHANGED <<incomingData, pc, i, participants, uniqueNames, scores, ret>>

(* it == uniqueNames.end(); lines 53-57 *)
EndPrintUnique(r) ==
  /\ pc[r] = "printUnique"
  /\ it[r] = Len(uniqueNames[r]) + 1
  /\ out' = [out EXCEPT ![r] = @ \o <<BlankLine, HdrScores>>]
  /\ it' = [it EXCEPT ![r] = 1]
  /\ pc' = [pc EXCEPT ![r] = "printScores"]
  /\ UNCHANGED <<incomingData, i, participants, uniqueNames, scores, ret>>

(* lines 57-59, one iteration *)
PrintScore(r) ==
  /\ pc[r] = "printScores"
  /\ it[r] <= Len(scores[r])
  /\ out' = [out EXCEPT ![r] =
               @ \o << Str(scores[r][it[r]].first), Colon,
                       Num(scores[r][it[r]].second), Endl >>]
  /\ it' = [it EXCEPT ![r] = @ + 1]
  /\ UNCHANGED <<incomingData, pc, i, participants, uniqueNames, scores, ret>>

(* it == scores.end(); line 61 *)
Return_Failure(r) ==
  /\ pc[r] = "printScores"
  /\ it[r] = Len(scores[r]) + 1
  /\ ret' = [ret EXCEPT ![r] = <<1>>]
  /\ pc' = [pc EXCEPT ![r] = "done"]
  /\ UNCHANGED <<incomingData, i, it, participants, uniqueNames, scores, out>>

Return(r) ==
  /\ pc[r] = "printScores"
  /\ it[r] = Len(scores[r]) + 1
  /\ ret' = [ret EXCEPT ![r] = <<0>>]
  /\ pc' = [pc EXCEPT ![r] = "done"]
  /\ UNCHANGED <<incomingData, i, it, participants, uniqueNames, scores, out>>

Step(r) ==
  \/ IngestStep(r)
  \/ IngestDone(r)
  \/ PrintParticipant(r)
  \/ EndPrintAll(r)
  \/ PrintUnique(r)
  \/ EndPrintUnique(r)
  \/ PrintScore(r)
  \/ Return(r)

(* one execution of the program *)
Next == Step(1)

Spec == Init /\ [][Next]_vars

(* the same execution under the scheduling of a sequential program: a step *)
(* that can be taken is taken                                              *)
FairSpec == Spec /\ WF_vars(Next)

(* two executions of the program on the same input, interleaved            *)
NextRuns == \E r \in Runs : Step(r)

SpecRuns == Init /\ [][NextRuns]_vars

(* ---------------------------- properties ------------------------------ *)
(* names of the first k input tuples *)
NamesUpTo(k) == {incomingData[j].first : j \in 1..k}

(* indices among the first k tuples at which name n occurs *)
Occurrences(n, k) == {j \in 1..k : incomingData[j].first = n}

Last(S) == CHOOSE j \in S : \A l \in S : l <= j

(* the values a map holds under key k (empty when the key is absent) *)
ValuesAt(m, k) == {m[j].second : j \in {l \in 1..Len(m) : m[l].first = k}}

StrictlyAscending(s) == \A j \in 1..(Len(s) - 1) : LexLess(s[j], s[j + 1])

(* C1: after k tuples have been ingested every name of the score mapping   *)
(* carries the score of its last occurrence among the first k tuples.      *)
C1_LastWriteWins ==
  \A r \in Runs : \A j \in 1..Len(scores[r]) :
     LET occ == Occurrences(scores[r][j].first, i[r])
     IN /\ occ # {}
        /\ scores[r][j].second = incomingData[Last(occ)].second

C1_Witness ==
  /\ pc[1] = "ingest"
  /\ \E a, b \in 1..i[1] :
        /\ a < b
        /\ incomingData[a].first = incomingData[b].first
        /\ incomingData[a].second # incomingData[b].second
        /\ b = Last(Occurrences(incomingData[b].first, i[1]))
        /\ ValuesAt(scores[1], incomingData[b].first) = {incomingData[b].second}

(* C2: after k tuples the unique-name set and the key set of the score     *)
(* mapping are both the set of distinct names of the first k tuples, each  *)
(* name held once, so the two containers have the same size.               *)
C2_SameKeyPopulation ==
  \A r \in Runs :
     /\ Range(uniqueNames[r]) = NamesUpTo(i[r])
     /\ Range(Keys(scores[r])) = NamesUpTo(i[r])
     /\ Len(uniqueNames[r]) = Cardinality(NamesUpTo(i[r]))
     /\ Len(scores[r]) = Cardinality(NamesUpTo(i[r]))
     /\ Len(uniqueNames[r]) = Len(scores[r])

C2_Witness ==
  /\ i[1] = 3
  /\ Len(uniqueNames[1]) = 2
  /\ Len(scores[1]) = 2

(* C3: the registration log has one entry per ingested tuple, the j-th     *)
(* entry is the name of the j-th tuple, and once ingest is over its length *)
(* is the number of input tuples.                                          *)
C3_LogLength ==
  \A r \in Runs :
     /\ Len(participants[r]) = i[r]
     /\ \A j \in 1..Len(participants[r]) :
           participants[r][j] = incomingData[j].first
     /\ pc[r] # "ingest" => Len(participants[r]) = Len(incomingData)

C3_Witness ==
  /\ pc[1] = "printAll"
  /\ Len(participants[1]) = 3
  /\ participants[1][1] = participants[1][3]

(* C4: for the hardcoded input, when ingest completes, the log is          *)
(* Alice Bob Alice Charlie Diana, the set is Alice Bob Charlie Diana and   *)
(* the mapping is Alice:97 Bob:80 Charlie:100 Diana:75.                    *)
C4_HardcodedResult ==
  \A r \in Runs :
     (incomingData = HardcodedData /\ i[r] = Len(incomingData)) =>
        /\ participants[r] = <<Alice, Bob, Alice, Charlie, Diana>>
        /\ uniqueNames[r] = <<Alice, Bob, Charlie, Diana>>
        /\ Len(uniqueNames[r]) = 4
        /\ scores[r] = << Pair(Alice, 97), Pair(Bob, 80),
                          Pair(Charlie, 100), Pair(Diana, 75) >>

C4_Witness ==
  /\ incomingData = HardcodedData
  /\ i[1] = 5
  /\ pc[1] = "printUnique"

IsHeader(t) == t \in {HdrAll, HdrUnique, HdrScores}

IsStr(t) == t.kind = "str"

(* the section headers written so far, in the order written *)
Headers(o) == SelectSeq(o, IsHeader)

IndexOf(o, t) == CHOOSE j \in 1..Len(o) : o[j] = t

Containers(r) == <<participants[r], uniqueNames[r], scores[r]>>

(* C5: nothing is written before every tuple is ingested, no container     *)
(* changes once reporting has begun, and the three section headers are     *)
(* written once each in the order log, unique names, scores.               *)
C5_TwoPhase ==
  /\ [](\A r \in Runs :
          /\ out[r] # <<>> => (pc[r] # "ingest" /\ i[r] = Len(incomingData))
          /\ pc[r] = "ingest" => Headers(out[r]) = <<>>
          /\ pc[r] = "printAll" => Headers(out[r]) = <<HdrAll>>
          /\ pc[r] = "printUnique" => Headers(out[r]) = <<HdrAll, HdrUnique>>
          /\ pc[r] \in {"printScores", "done"} =>
                Headers(out[r]) = <<HdrAll, HdrUnique, HdrScores>>)
  /\ [][\A r \in Runs :
          /\ pc[r] # "ingest" => Containers(r)' = Containers(r)
          /\ out'[r] # out[r] => Containers(r)' = Containers(r)]_vars

C5_Witness ==
  /\ pc[1] = "done"
  /\ Len(incomingData) = 2
  /\ Headers(out[1]) = <<HdrAll, HdrUnique, HdrScores>>

(* the names written between two positions of the output *)
NamesBetween(o, a, b) ==
  LET sel == SelectSeq(SubSeq(o, a, b), IsStr)
  IN [j \in 1..Len(sel) |-> sel[j].chars]

(* C6: the finished report lists the unique names once each in strictly    *)
(* ascending lexicographic order, and the score mapping once per key in    *)
(* strictly ascending key order, each key with its mapped score.           *)
C6_SortedReport ==
  \A r \in Runs : pc[r] = "done" =>
     LET o      == out[r]
         p2     == IndexOf(o, HdrUnique)
         p3     == IndexOf(o, HdrScores)
         unique == NamesBetween(o, p2 + 1, p3 - 1)
         rest   == SubSeq(o, p3 + 1, Len(o))
         n      == Len(scores[r])
         keys   == NamesBetween(o, p3 + 1, Len(o))
     IN /\ StrictlyAscending(unique)
        /\ Range(unique) = Range(uniqueNames[r])
        /\ Len(unique) = Cardinality(NamesUpTo(Len(incomingData)))
        /\ SubSeq(o, p2 + 1, p3 - 1) =
              [j \in 1..(2 * Len(unique) + 1) |->
                 IF j = 2 * Len(unique) + 1 THEN BlankLine
                 ELSE IF j % 2 = 1 THEN Str(unique[(j + 1) \div 2]) ELSE Space]
        /\ Len(rest) = 4 * n
        /\ Len(keys) = n
        /\ StrictlyAscending(keys)
        /\ Range(keys) = Range(Keys(scores[r]))
        /\ \A j \in 1..n :
              /\ rest[4 * j - 3] = Str(keys[j])
              /\ rest[4 * j - 2] = Colon
              /\ rest[4 * j - 1].kind = "int"
              /\ \E v \in ValuesAt(scores[r], keys[j]) :
                    rest[4 * j - 1].chars = Decimal(v)
              /\ rest[4 * j] = Endl

C6_Witness ==
  /\ pc[1] = "done"
  /\ Len(incomingData) = 3
  /\ incomingData[1].first = Bob
  /\ incomingData[2].first = Alice
  /\ incomingData[3].first = Al
  /\ Len(uniqueNames[1]) = 3

(* number of steps an execution has taken, read off its position *)
Progress(r) ==
  LET L == Len(incomingData)
      P == Len(participants[r])
      U == Len(uniqueNames[r])
      S == Len(scores[r])
  IN CASE pc[r] = "ingest"      -> i[r]
       [] pc[r] = "printAll"    -> L + it[r]
       [] pc[r] = "printUnique" -> L + P + 1 + it[r]
       [] pc[r] = "printScores" -> L + P + U + 2 + it[r]
       [] pc[r] = "done"        -> L + P + U + S + 4

Position(r) == <<pc[r], i[r], it[r]>>

(* C7: every execution reaches its end, having taken a number of steps     *)
(* bounded by the input length (at most 4 * length + 4), and ends with     *)
(* exit code 0; no other exit code is produced.                            *)
C7_Terminates ==
  /\ <>(pc[1] = "done" /\ ret[1] = <<0>>)
  /\ [](\A r \in Runs :
          /\ pc[r] = "done" => ret[r] = <<0>>
          /\ ret[r] # <<>> => (ret[r] = <<0>> /\ pc[r] = "done")
          /\ Progress(r) <= 4 * Len(incomingData) + 4)
  /\ [][\A r \in Runs :
          Position(r)' # Position(r) => Progress(r)' = Progress(r) + 1]_vars

C7_Witness ==
  /\ pc[1] = "done"
  /\ ret[1] = <<0>>
  /\ Len(incomingData) = 3
  /\ Progress(1) = 4 * Len(incomingData) + 4

(* C8: with no input tuple the three containers stay empty and the report  *)
(* is the three headers in order with nothing beneath them.                *)
C8_EmptyInput ==
  \A r \in Runs : incomingData = <<>> =>
     /\ participants[r] = <<>>
     /\ uniqueNames[r] = <<>>
     /\ scores[r] = <<>>
     /\ pc[r] = "done" =>
           out[r] = <<HdrAll, BlankLine, HdrUnique, BlankLine, HdrScores>>

C8_Witness ==
  /\ incomingData = <<>>
  /\ pc[1] = "done"
  /\ Len(out[1]) = 5

(* C9: two executions on the same input that stand at the same position    *)
(* hold the same containers and have written the same output.              *)
C9_Deterministic ==
  \A r1, r2 \in Runs :
     Position(r1) = Position(r2) =>
        /\ Containers(r1) = Containers(r2)
        /\ out[r1] = out[r2]
        /\ ret[r1] = ret[r2]

C9_Witness ==
  /\ pc[1] = "done"
  /\ pc[2] = "done"
  /\ Len(uniqueNames[1]) >= 2
  /\ out[1] = out[2]

(* C10: an ingest step for (n, s) appends n to the log and leaves the      *)
(* earlier entries alone, leaves the score of every other name unchanged,  *)
(* removes no name from the set or the mapping, and leaves the set and the *)
(* key set of the mapping as they were when n was already in the set.      *)
C10_IngestFrame ==
  [][\A r \in Runs :
       /\ Range(uniqueNames[r]) \subseteq Range(uniqueNames'[r])
       /\ Range(Keys(scores[r])) \subseteq Range(Keys(scores'[r]))
       /\ i'[r] # i[r] =>
            LET n == incomingData[i[r] + 1].first
            IN /\ participants'[r] = participants[r] \o <<n>>
               /\ \A m \in (NamesUpTo(Len(incomingData)) \ {n}) :
                     ValuesAt(scores'[r], m) = ValuesAt(scores[r], m)
               /\ n \in Range(uniqueNames[r]) =>
                     /\ uniqueNames'[r] = uniqueNames[r]
                     /\ Keys(scores'[r]) = Keys(scores[r])]_vars

C10_Witness ==
  /\ pc[1] = "ingest"
  /\ i[1] = 2
  /\ incomingData[1].first = incomingData[2].first
  /\ incomingData[1].second # incomingData[2].second
  /\ Len(participants[1]) = 2
  /\ Len(uniqueNames[1]) = 1

====
